---- MODULE Spec2Model ----
(***************************************************************************)
(* Model of app.py: the startup script (environment validation, chain      *)
(* assembly, route registration, app.run) and the Flask request handlers   *)
(* (index, chat, health, missing_keys).                                    *)
(*                                                                         *)
(* Text is a sequence of atoms: an atom is either one whitespace character *)
(* or a fragment that begins and ends with a non-whitespace character.     *)
(* str.strip() and string concatenation act on such sequences exactly as   *)
(* they act on the Python strings they stand for.                          *)
(***************************************************************************)
EXTENDS Naturals, Sequences, FiniteSets, TLC

\* Number of HTTP requests a behaviour of the model contains.
MaxReqs == 2

Reqs == 1..MaxReqs

Whitespace == {" ", "\n"}

\* The value of an unset environment variable (os.getenv returns None).
Unset == <<"<unset>">>

\* Values the two environment variables may hold when the script starts.
EnvSamples == {Unset, <<>>, <<" ", "\n">>, <<" ", "k", "\n">>}

EnvNames == <<"PINECONE_API_KEY", "OPENAI_API_KEY">>

\* Form payloads of a request: no msg field, or a msg field with some text.
EmptyMap == [k \in {} |-> <<>>]

FormSamples ==
    {EmptyMap} \cup
    {[msg |-> t] : t \in {<<>>, <<" ", "\n">>, <<" ", "hi", " ">>,
                          <<"a", " ", "b">>}}

\* A Python object, as far as the handlers look at it: its type and str().
PyObj(type, text) == [type |-> type, text |-> text]

\* Results rag_chain.invoke may return: mappings with or without an
\* "answer" key, and one value that is not a mapping.
MappingSamples ==
    {[answer |-> PyObj("str", <<" ", "ok", "\n">>)],
     [answer |-> PyObj("str", <<" ">>)],
     [answer |-> PyObj("int", <<"42">>)],
     [context |-> PyObj("list", <<"[]">>)]}

NotAMapping == [notamapping |-> PyObj("NoneType", <<"None">>)]

\* Texts of the exceptions rag_chain.invoke may raise.
ExcSamples == {<<"timeout">>}

Routes == {"/", "/get", "/health"}

\* Chain objects in the order the script constructs them.
ChainObjects ==
    <<"embedding", "docsearch", "chatModel", "retriever", "prompt",
      "question_answer_chain", "rag_chain">>

(***************************************************************************)
(* Pure helpers                                                            *)
(***************************************************************************)

RECURSIVE LStrip(_)
LStrip(s) ==
    IF s # <<>> /\ Head(s) \in Whitespace THEN LStrip(Tail(s)) ELSE s

RECURSIVE RStrip(_)
RStrip(s) ==
    IF s # <<>> /\ s[Len(s)] \in Whitespace
    THEN RStrip(SubSeq(s, 1, Len(s) - 1))
    ELSE s

\* str.strip()
Strip(s) == RStrip(LStrip(s))

\* dict.get(key, default) / request.form.get(key, default)
Get(d, key, default) == IF key \in DOMAIN d THEN d[key] ELSE default

\* str(obj)
Str(obj) == obj.text

Resp(status, body) == [status |-> status, body |-> body]

\* No response has been sent.
NoResp == Resp(0, <<>>)

(***************************************************************************)
(* State                                                                   *)
(***************************************************************************)
VARIABLES
    pc,        \* position of the module-level script
    isMain,    \* __name__ == "__main__"
    env,       \* os.environ, restricted to the two required names
    config,    \* the globals PINECONE_API_KEY and OPENAI_API_KEY
    err,       \* text of the RuntimeError bound to e (line 37)
    url_map,   \* routes registered on app: route -> view function
    built,     \* chain objects constructed so far
    services,  \* state of the vector index and model services
    reqs,      \* the HTTP requests and the position of their handlers
    console    \* requests whose stack trace was printed

vars == <<pc, isMain, env, config, err, url_map, built, services, reqs, console>>

shared == <<pc, isMain, env, config, err, url_map, built>>

NoOutcome == [kind |-> "none", result |-> EmptyMap, text |-> <<>>]

Returned(result) == [kind |-> "returned", result |-> result, text |-> <<>>]

Raised(text) == [kind |-> "raised", result |-> EmptyMap, text |-> text]

IdleReq ==
    [pc |-> "idle", route |-> "", form |-> EmptyMap, view |-> "",
     input |-> <<>>, calls |-> 0, outcome |-> NoOutcome, exc |-> <<>>,
     resp |-> NoResp]

Init ==
    /\ pc = "validate"
    /\ isMain \in BOOLEAN
    /\ env \in [{EnvNames[1], EnvNames[2]} -> EnvSamples]
    /\ config = [n \in {EnvNames[1], EnvNames[2]} |-> Unset]
    /\ err = <<>>
    /\ url_map = EmptyMap
    /\ built = {}
    /\ services \in {"up", "down"}
    /\ reqs = [i \in Reqs |-> IdleReq]
    /\ console = {}

(***************************************************************************)
(* Startup: lines 24-48                                                    *)
(***************************************************************************)

\* Faulty variant of RequireEnvFails: the whitespace check is forgotten.
RequireEnvFailsUnsetOnly(val) == val = Unset \/ val = <<>>

\* require_env raises: `not val or not val.strip()`
RequireEnvFails(val) == val = Unset \/ val = <<>> \/ Strip(val) = <<>>

\* require_env returns val.strip()
RequireEnvValue(val) == Strip(val)

\* Faulty variant of ErrMessage: the variable is not named.
ErrMessageNoName(name) ==
    <<"Missing required environment variable.", " ",
      "Set it in your OS or in a .env file next to app.py.">>

\* The text of the RuntimeError require_env raises for `name`.
ErrMessage(name) ==
    <<"Missing required environment variable:", " ", name, ".", " ",
      "Set it in your OS or in a .env file next to app.py.">>

\* Lines 34-44 up to the point where the script blocks or leaves: both keys
\* are read in order; the first failure binds e, registers missing_keys on
\* "/", and then either serves (entry point) or re-raises (imported).
ValidateKeys ==
    /\ pc = "validate"
    /\ IF RequireEnvFails(env[EnvNames[1]])
       THEN /\ config' = config
            /\ err' = ErrMessage(EnvNames[1])
       ELSE /\ config' =
                 [config EXCEPT
                    ![EnvNames[1]] = RequireEnvValue(env[EnvNames[1]]),
                    ![EnvNames[2]] =
                        IF RequireEnvFails(env[EnvNames[2]])
                        THEN @
                        ELSE RequireEnvValue(env[EnvNames[2]])]
            /\ err' = IF RequireEnvFails(env[EnvNames[2]])
                      THEN ErrMessage(EnvNames[2])
                      ELSE <<>>
    /\ IF err' # <<>>
       THEN /\ url_map' = [r \in {"/"} |-> "missing_keys"]
            /\ pc' = IF isMain THEN "degraded" ELSE "import_failed"
       ELSE /\ url_map' = url_map
            /\ pc' = "publish"
    /\ UNCHANGED <<isMain, env, built, services, reqs, console>>

\* Line 43 returns (the development server is stopped) and line 44 re-raises.
DegradedServerStops ==
    /\ pc = "degraded"
    /\ pc' = "stopped"
    /\ UNCHANGED <<isMain, env, config, err, url_map, built, services, reqs,
                   console>>

\* Lines 47-48: the trimmed values are written back to os.environ.
PublishEnv ==
    /\ pc = "publish"
    /\ env' = [n \in DOMAIN env |-> config[n]]
    /\ pc' = "assemble"
    /\ UNCHANGED <<isMain, config, err, url_map, built, services, reqs,
                   console>>

(***************************************************************************)
(* Chain assembly: lines 50-70                                             *)
(***************************************************************************)

\* The next chain object the script constructs.
NextObject == ChainObjects[Cardinality(built) + 1]

\* Objects whose construction calls out (model download, index lookup,
\* client construction) and so may raise; the others are local compositions
\* that may raise as well (any exception at module level ends the script).
AssembleOk ==
    /\ pc = "assemble"
    /\ Cardinality(built) < Len(ChainObjects)
    /\ built' = built \cup {NextObject}
    /\ UNCHANGED <<pc, isMain, env, config, err, url_map, services, reqs,
                   console>>

\* Faulty variant of AssembleFails: the exception is swallowed and the script
\* goes on to register the routes.
AssembleFailsContinues ==
    /\ pc = "assemble"
    /\ Cardinality(built) < Len(ChainObjects)
    /\ url_map' = [r \in Routes |->
                     CASE r = "/" -> "index"
                       [] r = "/get" -> "chat"
                       [] r = "/health" -> "health"]
    /\ pc' = "registered"
    /\ UNCHANGED <<isMain, env, config, err, built, services, reqs, console>>

\* The constructor raises: the exception is not caught at module level, so
\* the script ends there.
AssembleFails ==
    /\ pc = "assemble"
    /\ Cardinality(built) < Len(ChainObjects)
    /\ pc' = "failed"
    /\ UNCHANGED <<isMain, env, config, err, url_map, built, services, reqs,
                   console>>

\* Lines 72-94: the three view functions are registered.
RegisterRoutes ==
    /\ pc = "assemble"
    /\ Cardinality(built) = Len(ChainObjects)
    /\ url_map' = [r \in Routes |->
                     CASE r = "/" -> "index"
                       [] r = "/get" -> "chat"
                       [] r = "/health" -> "health"]
    /\ pc' = "registered"
    /\ UNCHANGED <<isMain, env, config, err, built, services, reqs, console>>

\* Lines 96-99 (entry point: app.run) or the end of the import (the host
\* server then serves app).
StartServing ==
    /\ pc = "registered"
    /\ pc' = "serving"
    /\ UNCHANGED <<isMain, env, config, err, url_map, built, services, reqs,
                   console>>

\* The process accepts HTTP requests.
Serving == pc \in {"serving", "degraded"}

(***************************************************************************)
(* Request handling: lines 39-41 and 72-94                                 *)
(***************************************************************************)

\* The view function Flask dispatches a route to; an unregistered route is
\* answered by Flask itself with 404.
ViewOf(route) == IF route \in DOMAIN url_map THEN url_map[route] ELSE "not_found"

SetReq(i, r) == reqs' = [reqs EXCEPT ![i] = r]

\* A client sends GET /, POST /get (with a form) or GET /health.
Receive(i, route, form) ==
    /\ Serving
    /\ reqs[i].pc = "idle"
    /\ route = "/get" \/ form = EmptyMap
    /\ SetReq(i, [reqs[i] EXCEPT !.pc = "received", !.route = route,
                                 !.form = form, !.view = ViewOf(route)])
    /\ UNCHANGED <<pc, isMain, env, config, err, url_map, built, services,
                   console>>

NotFoundResponse == Resp(404, <<"Not Found">>)

NotFound(i) ==
    /\ reqs[i].pc = "received"
    /\ reqs[i].view = "not_found"
    /\ SetReq(i, [reqs[i] EXCEPT !.pc = "done", !.resp = NotFoundResponse])
    /\ UNCHANGED <<pc, isMain, env, config, err, url_map, built, services,
                   console>>

\* Line 41: f"<pre>{e}</pre>", 500
MissingKeysResponse(e) == Resp(500, <<"<pre>">> \o e \o <<"</pre>">>)

missing_keys(i) ==
    /\ reqs[i].pc = "received"
    /\ reqs[i].view = "missing_keys"
    /\ SetReq(i, [reqs[i] EXCEPT !.pc = "done",
                                 !.resp = MissingKeysResponse(err)])
    /\ UNCHANGED <<pc, isMain, env, config, err, url_map, built, services,
                   console>>

\* Line 74: render_template("chat.html")
IndexResponse == Resp(200, <<"chat.html">>)

index(i) ==
    /\ reqs[i].pc = "received"
    /\ reqs[i].view = "index"
    /\ SetReq(i, [reqs[i] EXCEPT !.pc = "done", !.resp = IndexResponse])
    /\ UNCHANGED <<pc, isMain, env, config, err, url_map, built, services,
                   console>>

\* Body of the faulty variant of health.
Unavailable == Resp(503, <<"unavailable">>)

JsonStatusOk == <<"{", "\"status\"", ":", "\"ok\"", "}">>

\* Line 94: jsonify(status="ok"), 200
HealthResponse == Resp(200, JsonStatusOk)

\* Faulty variant of health: a readiness probe that looks at the services.
healthChecked(i) ==
    /\ reqs[i].pc = "received"
    /\ reqs[i].view = "health"
    /\ SetReq(i, [reqs[i] EXCEPT
                    !.pc = "done",
                    !.resp = IF services = "up" THEN HealthResponse
                                                ELSE Unavailable])
    /\ UNCHANGED <<pc, isMain, env, config, err, url_map, built, services,
                   console>>

health(i) ==
    /\ reqs[i].pc = "received"
    /\ reqs[i].view = "health"
    /\ SetReq(i, [reqs[i] EXCEPT !.pc = "done", !.resp = HealthResponse])
    /\ UNCHANGED <<pc, isMain, env, config, err, url_map, built, services,
                   console>>

\* Faulty variant of UserMsg: the message is not trimmed.
UserMsgNoStrip(form) == Get(form, "msg", <<>>)

\* Line 78: request.form.get("msg", "").strip()
UserMsg(form) == Strip(Get(form, "msg", <<>>))

\* Line 80
PleaseTypeResponse == Resp(400, <<"Please type a message.">>)

\* Lines 78-80: `if not user_msg`
ChatReject(i) ==
    /\ reqs[i].pc = "received"
    /\ reqs[i].view = "chat"
    /\ UserMsg(reqs[i].form) = <<>>
    /\ SetReq(i, [reqs[i] EXCEPT !.pc = "done", !.resp = PleaseTypeResponse])
    /\ UNCHANGED <<pc, isMain, env, config, err, url_map, built, services,
                   console>>

\* Faulty variant of ChatInvoke: the handler rebinds a global.
ChatInvokeWritesConfig(i) ==
    /\ reqs[i].pc = "received"
    /\ reqs[i].view = "chat"
    /\ UserMsg(reqs[i].form) # <<>>
    /\ SetReq(i, [reqs[i] EXCEPT !.pc = "invoking",
                                 !.input = UserMsg(reqs[i].form),
                                 !.calls = @ + 1])
    /\ config' = [config EXCEPT ![EnvNames[2]] = UserMsg(reqs[i].form)]
    /\ UNCHANGED <<pc, isMain, env, err, url_map, built, services, console>>

\* Lines 78-82: the handler calls rag_chain.invoke({"input": user_msg}) and
\* blocks in it.
ChatInvoke(i) ==
    /\ reqs[i].pc = "received"
    /\ reqs[i].view = "chat"
    /\ UserMsg(reqs[i].form) # <<>>
    /\ SetReq(i, [reqs[i] EXCEPT !.pc = "invoking",
                                 !.input = UserMsg(reqs[i].form),
                                 !.calls = @ + 1])
    /\ UNCHANGED <<pc, isMain, env, config, err, url_map, built, services,
                   console>>

\* `result` supports .get (it is a dict).
IsMapping(result) == "notamapping" \notin DOMAIN result

\* Faulty variant of AnswerBody: the answer is not trimmed.
AnswerBodyUntrimmed(result) == Str(Get(result, "answer", PyObj("str", <<>>)))

\* Line 85: str(result.get("answer", "")).strip()
AnswerBody(result) == Strip(Str(Get(result, "answer", PyObj("str", <<>>))))

\* Lines 82-85: the invocation returns a mapping and the handler returns
\* the answer (Flask answers a returned string with status 200).
ChatAnswer(i, result) ==
    /\ reqs[i].pc = "invoking"
    /\ services = "up"
    /\ IsMapping(result)
    /\ SetReq(i, [reqs[i] EXCEPT !.pc = "done",
                                 !.outcome = Returned(result),
                                 !.resp = Resp(200, AnswerBody(result))])
    /\ UNCHANGED <<pc, isMain, env, config, err, url_map, built, services,
                   console>>

\* str() of the AttributeError raised by .get on a value that has none.
ExtractError == <<"'NoneType' object has no attribute 'get'">>

\* Lines 82-86: the invocation returns a value line 85 cannot read; the
\* exception is caught by `except Exception as e`.
ChatExtractFails(i, result) ==
    /\ reqs[i].pc = "invoking"
    /\ services = "up"
    /\ ~IsMapping(result)
    /\ SetReq(i, [reqs[i] EXCEPT !.pc = "except",
                                 !.outcome = Returned(result),
                                 !.exc = ExtractError])
    /\ UNCHANGED <<pc, isMain, env, config, err, url_map, built, services,
                   console>>

\* Faulty variant of ChainRaises: a failed invocation is retried once.
ChainRaisesRetry(i, text) ==
    /\ reqs[i].pc = "invoking"
    /\ IF reqs[i].calls < 2
       THEN SetReq(i, [reqs[i] EXCEPT !.calls = @ + 1])
       ELSE SetReq(i, [reqs[i] EXCEPT !.pc = "except",
                                      !.outcome = Raised(text),
                                      !.exc = text])
    /\ UNCHANGED <<pc, isMain, env, config, err, url_map, built, services,
                   console>>

\* Lines 82, 86: the invocation raises and `except Exception as e` catches.
ChainRaises(i, text) ==
    /\ reqs[i].pc = "invoking"
    /\ SetReq(i, [reqs[i] EXCEPT !.pc = "except",
                                 !.outcome = Raised(text),
                                 !.exc = text])
    /\ UNCHANGED <<pc, isMain, env, config, err, url_map, built, services,
                   console>>

\* Line 87: traceback.print_exc()
ChatPrintExc(i) ==
    /\ reqs[i].pc = "except"
    /\ console' = console \cup {i}
    /\ SetReq(i, [reqs[i] EXCEPT !.pc = "printed"])
    /\ UNCHANGED <<pc, isMain, env, config, err, url_map, built, services>>

\* Faulty variant of ErrorBody: the exception text is withheld.
ErrorBodyGeneric(e) == <<"Internal Server Error">>

\* Line 89: f"Error: {e}"
ErrorBody(e) == <<"Error:", " ">> \o e

\* Faulty variant of ChatError: the handler also gives up on an invocation
\* that has not completed.
ChatErrorOrTimeout(i) ==
    /\ reqs[i].pc \in {"printed", "invoking"}
    /\ SetReq(i, [reqs[i] EXCEPT !.pc = "done",
                                 !.resp = Resp(500, ErrorBody(reqs[i].exc))])
    /\ UNCHANGED <<pc, isMain, env, config, err, url_map, built, services,
                   console>>

\* Line 89: Response(f"Error: {e}", status=500, mimetype="text/plain")
ChatError(i) ==
    /\ reqs[i].pc = "printed"
    /\ SetReq(i, [reqs[i] EXCEPT !.pc = "done",
                                 !.resp = Resp(500, ErrorBody(reqs[i].exc))])
    /\ UNCHANGED <<pc, isMain, env, config, err, url_map, built, services,
                   console>>

\* The vector index or the model service goes down or comes back.
ServiceChange ==
    /\ services' = IF services = "up" THEN "down" ELSE "up"
    /\ UNCHANGED <<pc, isMain, env, config, err, url_map, built, reqs,
                   console>>

\* The steps of the handler of request i, and of the chain it waits for.
Handle(i) ==
    \/ NotFound(i)
    \/ missing_keys(i)
    \/ index(i)
    \/ health(i)
    \/ ChatReject(i)
    \/ ChatInvoke(i)
    \/ ChatPrintExc(i)
    \/ ChatError(i)

ChainCompletes(i) ==
    \/ \E result \in MappingSamples : ChatAnswer(i, result)
    \/ ChatExtractFails(i, NotAMapping)
    \/ \E text \in ExcSamples : ChainRaises(i, text)

Next ==
    \/ ValidateKeys
    \/ DegradedServerStops
    \/ PublishEnv
    \/ AssembleOk
    \/ AssembleFails
    \/ RegisterRoutes
    \/ StartServing
    \/ ServiceChange
    \/ \E i \in Reqs :
          \/ \E route \in Routes, form \in FormSamples : Receive(i, route, form)
          \/ Handle(i)
          \/ ChainCompletes(i)

Spec == Init /\ [][Next]_vars

\* The server runs every handler it has started, and the chain invocation
\* of every request completes.
FairSpec ==
    /\ Spec
    /\ \A i \in Reqs : WF_vars(Handle(i)) /\ WF_vars(ChainCompletes(i))

(***************************************************************************)
(* Vocabulary of the properties, stated without the handlers' operators    *)
(***************************************************************************)

IsBlankText(t) == \A k \in 1..Len(t) : t[k] \in Whitespace

\* b is s without its leading and trailing whitespace.
IsTrimOf(b, s) ==
    \E l \in 0..Len(s) : \E r \in 0..(Len(s) - l) :
        /\ \A k \in 1..l : s[k] \in Whitespace
        /\ \A k \in (Len(s) - r + 1)..Len(s) : s[k] \in Whitespace
        /\ b = SubSeq(s, l + 1, Len(s) - r)
        /\ b # <<>> => b[1] \notin Whitespace /\ b[Len(b)] \notin Whitespace

Contains(body, atom) == \E k \in 1..Len(body) : body[k] = atom

\* The msg field of the request is absent, empty or whitespace-only.
MsgBlank(r) == "msg" \notin DOMAIN r.form \/ IsBlankText(r.form.msg)

\* The request was dispatched to chat and chat has started running.
InChat(r) == r.view = "chat" /\ r.pc # "received"

\* The invocation raised, or returned something line 85 cannot read.
ChainFailed(r) ==
    \/ r.outcome.kind = "raised"
    \/ r.outcome.kind = "returned" /\ "notamapping" \in DOMAIN r.outcome.result

ChainAnswered(r) ==
    r.outcome.kind = "returned" /\ "notamapping" \notin DOMAIN r.outcome.result

\* The text of the exception the handler caught.
FailureText(r) ==
    IF r.outcome.kind = "raised"
    THEN r.outcome.text
    ELSE <<"'NoneType' object has no attribute 'get'">>

\* The text of the answer field of the result, "" when there is none.
AnswerText(r) ==
    IF "answer" \in DOMAIN r.outcome.result
    THEN r.outcome.result.answer.text
    ELSE <<>>

\* The variable is absent or whitespace-only.
MissingVar(n) == env[n] = Unset \/ IsBlankText(env[n])

AnyMissing == \E n \in DOMAIN env : MissingVar(n)

FirstMissing == IF MissingVar(EnvNames[1]) THEN EnvNames[1] ELSE EnvNames[2]

ChainComplete == \A k \in 1..Len(ChainObjects) : ChainObjects[k] \in built

(***************************************************************************)
(* Properties                                                              *)
(***************************************************************************)

\* C1: a request handled by chat whose msg is absent, empty or
\* whitespace-only is answered 400 "Please type a message." by the first
\* step of the handler, and the chain is not invoked for it.
C1_BlankRejected ==
    \A i \in Reqs :
        InChat(reqs[i]) /\ MsgBlank(reqs[i]) =>
            /\ reqs[i].pc = "done"
            /\ reqs[i].resp = Resp(400, <<"Please type a message.">>)
            /\ reqs[i].calls = 0
            /\ reqs[i].outcome.kind = "none"

C1_Witness ==
    \E i \in Reqs :
        /\ InChat(reqs[i])
        /\ "msg" \in DOMAIN reqs[i].form
        /\ reqs[i].form.msg = <<" ", "\n">>
        /\ reqs[i].resp.status = 400

\* C2: when the invocation of a request with a non-blank msg raises, or the
\* answer cannot be read from what it returned, the response (once there is
\* one) is 500 with body "Error: " followed by the exception's text, and
\* the stack trace is on the console by then; no other response is sent.
C2_ErrorReported ==
    \A i \in Reqs :
        InChat(reqs[i]) /\ ~MsgBlank(reqs[i]) /\ ChainFailed(reqs[i]) =>
            /\ reqs[i].resp # NoResp =>
                  /\ reqs[i].resp =
                        Resp(500, <<"Error:", " ">> \o FailureText(reqs[i]))
                  /\ i \in console
            /\ reqs[i].pc = "done" => reqs[i].resp # NoResp

C2_Witness ==
    \E i \in Reqs :
        /\ InChat(reqs[i])
        /\ reqs[i].outcome = Raised(<<"timeout">>)
        /\ reqs[i].resp = Resp(500, <<"Error:", " ", "timeout">>)
        /\ i \in console

\* C3 as stated: for a non-blank msg whose invocation returned, the chain
\* got the trimmed message and the response is 200 with a NON-EMPTY body
\* equal to the trimmed answer.
C3_Original ==
    \A i \in Reqs :
        /\ InChat(reqs[i])
        /\ ~MsgBlank(reqs[i])
        /\ reqs[i].outcome.kind = "returned"
        /\ reqs[i].pc = "done"
        => /\ IsTrimOf(reqs[i].input, reqs[i].form.msg)
           /\ reqs[i].resp.status = 200
           /\ reqs[i].resp.body # <<>>
           /\ IsTrimOf(reqs[i].resp.body, AnswerText(reqs[i]))

\* C3 (amended): the chain is invoked with the trimmed message, and when the
\* invocation returns a mapping the response is 200 with body equal to the
\* trimmed text of its answer field ("" when the field is absent); the body
\* may be empty.
C3_AnswerReturned ==
    \A i \in Reqs :
        InChat(reqs[i]) /\ ~MsgBlank(reqs[i]) =>
            /\ reqs[i].input # <<>>
            /\ IsTrimOf(reqs[i].input, reqs[i].form.msg)
            /\ ChainAnswered(reqs[i]) =>
                  /\ reqs[i].pc = "done"
                  /\ reqs[i].resp.status = 200
                  /\ IsTrimOf(reqs[i].resp.body, AnswerText(reqs[i]))

C3_Witness ==
    \E i \in Reqs :
        /\ InChat(reqs[i])
        /\ ~MsgBlank(reqs[i])
        /\ reqs[i].form.msg = <<" ", "hi", " ">>
        /\ reqs[i].input = <<"hi">>
        /\ reqs[i].outcome.kind = "returned"
        /\ "answer" \in DOMAIN reqs[i].outcome.result
        /\ reqs[i].outcome.result.answer.text = <<" ", "ok", "\n">>
        /\ reqs[i].resp = Resp(200, <<"ok">>)

\* C4 as stated: in every state in which the process serves requests, the
\* state after a startup configuration failure included, a GET /health that
\* has been answered got 200 {"status": "ok"} and made no call to the chain.
C4_Original ==
    \A i \in Reqs :
        reqs[i].route = "/health" /\ reqs[i].pc = "done" =>
            /\ reqs[i].resp = Resp(200, <<"{", "\"status\"", ":", "\"ok\"", "}">>)
            /\ reqs[i].calls = 0

\* C4 (amended): once startup has succeeded, whatever the state of the
\* vector index and model services, GET /health is answered 200
\* {"status": "ok"} without a call to the chain.
C4_HealthOk ==
    \A i \in Reqs :
        reqs[i].route = "/health" /\ pc = "serving" =>
            /\ reqs[i].view = "health"
            /\ reqs[i].calls = 0
            /\ reqs[i].outcome.kind = "none"
            /\ reqs[i].pc \in {"received", "done"}
            /\ reqs[i].pc = "done" =>
                  reqs[i].resp = Resp(200, <<"{", "\"status\"", ":", "\"ok\"", "}">>)

C4_Witness ==
    \E i, j \in Reqs :
        /\ reqs[i].route = "/health"
        /\ reqs[i].resp.status = 200
        /\ services = "down"
        /\ reqs[j].view = "chat"
        /\ reqs[j].pc = "except"

\* The response the process gives to GET / is 500 and names variable n.
RootAnswers500Naming(n) ==
    /\ Serving
    /\ ViewOf("/") = "missing_keys"
    /\ Contains(err, n)
    /\ \A i \in Reqs :
          reqs[i].route = "/" /\ reqs[i].pc = "done" =>
              reqs[i].resp.status = 500 /\ Contains(reqs[i].resp.body, n)

\* C5 as stated: when a required variable is absent or whitespace-only at
\* startup, then however the module was started, once the keys have been
\* validated (and until the server is stopped) GET / is answered 500 with a
\* body that names a missing variable.
C5_Original ==
    AnyMissing /\ pc \notin {"validate", "stopped"} =>
        \E n \in DOMAIN env : MissingVar(n) /\ RootAnswers500Naming(n)

\* C5 (amended): when a required variable is absent or whitespace-only at
\* startup and the module runs as the entry point, GET / is answered 500
\* with a body that names the first missing variable (PINECONE_API_KEY is
\* checked first); when the module is imported, the import raises and
\* nothing is served.
C5_DegradedRoot ==
    AnyMissing /\ pc # "validate" =>
        /\ isMain /\ pc # "stopped" => RootAnswers500Naming(FirstMissing)
        /\ ~isMain => pc = "import_failed" /\ \A i \in Reqs : reqs[i].pc = "idle"
        /\ \A i \in Reqs :
              reqs[i].route = "/" /\ reqs[i].pc = "done" =>
                  /\ reqs[i].resp.status = 500
                  /\ Contains(reqs[i].resp.body, FirstMissing)

C5_Witness ==
    \E i \in Reqs :
        /\ env[EnvNames[1]] = <<" ", "k", "\n">>
        /\ env[EnvNames[2]] = <<" ", "\n">>
        /\ reqs[i].route = "/"
        /\ reqs[i].resp.status = 500
        /\ Contains(reqs[i].resp.body, "OPENAI_API_KEY")

\* C6: whenever a chain object has been constructed, both configuration
\* values are non-empty strings without leading or trailing whitespace; if
\* a variable is missing or blank the script leaves before constructing
\* any chain object.
C6_ConfigBeforeChain ==
    /\ built # {} =>
          \A n \in DOMAIN config :
              /\ config[n] # Unset
              /\ config[n] # <<>>
              /\ config[n][1] \notin Whitespace
              /\ config[n][Len(config[n])] \notin Whitespace
    /\ AnyMissing =>
          /\ built = {}
          /\ pc \in {"validate", "degraded", "stopped", "import_failed"}

C6_Witness ==
    /\ ChainComplete
    /\ \A n \in DOMAIN config : config[n] = <<"k">>

\* C7: once a step of chain assembly has failed the script has ended: it
\* stays failed, no route is registered, no request is ever received; and a
\* request is dispatched to chat or index only with the chain complete.
C7_AssemblyFailureFatal ==
    /\ [](pc = "failed" =>
            /\ ~ChainComplete
            /\ url_map = EmptyMap
            /\ \A i \in Reqs : reqs[i].pc = "idle")
    /\ [](\A i \in Reqs : reqs[i].view \in {"chat", "index"} => ChainComplete)
    /\ [][pc = "failed" => pc' = "failed"]_vars
    /\ [][pc = "assemble" /\ pc' # "assemble" /\ ~ChainComplete
            => pc' = "failed"]_vars

C7_Witness ==
    /\ pc = "failed"
    /\ "embedding" \in built
    /\ "docsearch" \notin built

\* C8: a step that changes a request changes nothing of the process-wide
\* state (environment, configuration, routes, chain), and two chat requests
\* with the same form and the same chain outcome have the same response.
C8_NoSharedState ==
    /\ [][reqs' # reqs => UNCHANGED shared]_vars
    /\ [](\A i, j \in Reqs :
            /\ reqs[i].view = "chat" /\ reqs[j].view = "chat"
            /\ reqs[i].pc = "done" /\ reqs[j].pc = "done"
            /\ reqs[i].form = reqs[j].form
            /\ reqs[i].outcome = reqs[j].outcome
            => reqs[i].resp = reqs[j].resp)

C8_Witness ==
    \E i, j \in Reqs :
        /\ i # j
        /\ reqs[i].view = "chat" /\ reqs[j].view = "chat"
        /\ reqs[i].pc = "done" /\ reqs[j].pc = "done"
        /\ reqs[i].form = reqs[j].form
        /\ reqs[i].outcome = reqs[j].outcome
        /\ reqs[i].outcome.kind = "returned"

\* C9: a chat request with a non-blank msg has invoked the chain exactly
\* once from the moment the handler calls it, a blank one never; and a
\* failed invocation is answered 500, never with an answer.
C9_InvokedOnce ==
    \A i \in Reqs :
        /\ reqs[i].calls = IF InChat(reqs[i]) /\ ~MsgBlank(reqs[i]) THEN 1 ELSE 0
        /\ InChat(reqs[i]) /\ ChainFailed(reqs[i]) /\ reqs[i].pc = "done" =>
              reqs[i].resp.status = 500

C9_Witness ==
    \E i \in Reqs :
        /\ reqs[i].view = "chat"
        /\ reqs[i].pc = "done"
        /\ reqs[i].outcome.kind = "raised"
        /\ reqs[i].calls = 1
        /\ reqs[i].resp.status = 500

\* C10: a chat request has no response while its invocation is pending and
\* leaves the invocation only when the chain returns or raises; its
\* response, once sent, is 200, 400 or 500 and never changes; and, the
\* invocation completing, every request received by chat is answered.
C10_AnsweredAfterInvocation ==
    /\ [](\A i \in Reqs :
            reqs[i].view = "chat" =>
                /\ reqs[i].pc # "done" => reqs[i].resp = NoResp
                /\ reqs[i].pc = "done" => reqs[i].resp.status \in {200, 400, 500}
                /\ reqs[i].pc = "done" /\ ~MsgBlank(reqs[i]) =>
                      reqs[i].outcome.kind # "none")
    /\ [][\A i \in Reqs :
            /\ reqs[i].resp # NoResp => reqs'[i] = reqs[i]
            /\ reqs[i].pc = "invoking" /\ reqs'[i].pc # "invoking" =>
                  reqs'[i].outcome.kind # "none"]_vars
    /\ \A i \in Reqs :
          (reqs[i].view = "chat" /\ reqs[i].pc = "received")
              ~> (reqs[i].pc = "done" /\ reqs[i].resp.status \in {200, 400, 500})

C10_Witness ==
    \E i, j \in Reqs :
        /\ reqs[i].view = "chat"
        /\ reqs[i].pc = "invoking"
        /\ reqs[i].resp = NoResp
        /\ reqs[j].view = "chat"
        /\ reqs[j].pc = "done"
        /\ reqs[j].outcome.kind = "returned"
        /\ reqs[j].resp.status = 200

====
